---- MODULE Spec2Model ----
(***************************************************************************)
(* Model of device_check.py: main() probes the NTP candidates, fixes one   *)
(* timestamp, loads the inventory and hands every device to a              *)
(* multiprocessing pool of 4 workers; each worker runs process_target()    *)
(* on one device: connect, find_prompt, backup, show commands, TextFSM     *)
(* parsing, configuration push, audit line, disconnect.                    *)
(*                                                                         *)
(* The pool is modelled with the fork start method: the workers inherit    *)
(* the module globals as main() left them, and the two template handles    *)
(* SHOW_CDP_NEI and SHOW_VERS are one open file description each, shared   *)
(* by all the workers, whose read offset only ever advances.               *)
(***************************************************************************)
EXTENDS Integers, Sequences, FiniteSets, TLC

\* ------------------------------------------------------------------ bounds
\* Largest inventory read from the device file.
NumDevices == 2
\* Size of the inventory in the runs that fill the pool.
NumPoolDevices == 5

\* ------------------------------------------------------- program constants
PoolSize == 4
NTP_SERVERS == <<"37.193.156.169", "78.36.18.184", "89.221.207.113", "192.36.143.130">>
DefaultDeviceFile == "devices.txt"
DefaultBackupDir == "backups"
TimezoneCommand == "clock timezone GMT 0 0"

\* The devices an inventory row may stand for.
Devices == 1..(IF NumPoolDevices > NumDevices THEN NumPoolDevices ELSE NumDevices)

\* ------------------------------------------------------------- environment
\* Command lines main() may be started with.
ArgLists == { <<>>, <<"inv.csv">>, <<"inv.csv", "bk">>, <<"inv.csv", "bk", "x">> }
\* What the network does to one NTP probe datagram.
NetOutcomes == {"socket_error", "timeout", "malformed_reply", "valid_reply"}
\* The clock readings datetime.now() may return, in seconds of the day 2020-04-27.
Clock == {32758, 32759}
\* What the network does to the probe of each of the four candidates.
Networks == [1..4 -> NetOutcomes]
\* Prompts a device may answer find_prompt() with.
Prompts == {"R1#", "R2>"}
\* Outputs of the show commands.
RunningConfigs == {"hostname r\n"}
CdpOutputs == {"CDP is not enabled", "R9 Gig 0/1 120 R S I"}
VersionOutputs == {"", "Cisco IOS Software, Version 15.2 NPE", "Cisco IOS Software, Version 15.2"}
NtpStatusOutputs == {"Clock is synchronized", "Clock is unsynchronized"}

VARIABLES
    args,               \* the positional arguments of main
    env,                \* the surroundings of the run: the network's answer to the probe
                        \* of each candidate and the clock reading main gets
    pc_main,            \* position of main
    DEVICE_FILE_PATH,   \* module global
    BACKUP_DIR_PATH,    \* module global
    config_commands,    \* main's baseline list
    ntp_idx,            \* index of the candidate the for loop of main is at
    probe,              \* the call of check_ntp_server in progress, or NoProbe
    ntp_log,            \* the calls of check_ntp_server made so far: host and return value
    timestamp,          \* main's timestamp string ("" before it is taken)
    device_list,        \* main's device_list
    processes,          \* main's list of AsyncResult handles (the device each stands for)
    get_idx,            \* index in processes of the handle main waits for
    exit_status,        \* the exit status of the process once pc_main = "exit"
    pc,                 \* per device: position of its task
    worker,             \* per device: the pool worker that runs its task (0: none)
    taskargs,           \* per device: the arguments apply_async was given
    loc,                \* per device: the local variables of process_target
    exc,                \* per device: the exception its task ended with and the
                        \* statement that raised it, or NoExc
    session,            \* per device: state of the management session
    sent,               \* per device: the calls made on its connection, in order
    pushed,             \* per device: the command lists send_config_set delivered to it
    backups,            \* per device: the paths its task wrote a backup to
    dirs,               \* the directories that exist
    files,              \* the files that exist: records of path and text
    SHOW_CDP_NEI,       \* TRUE when the shared template handle still has its content to read
    SHOW_VERS,          \* same for the version template handle
    stdout              \* per device: the audit line its task printed, or NoLine

vars == << args, env, pc_main, DEVICE_FILE_PATH, BACKUP_DIR_PATH, config_commands, ntp_idx,
           probe, ntp_log, timestamp, device_list, processes, get_idx, exit_status,
           pc, worker, taskargs, loc, exc, session, sent, pushed, backups, dirs, files,
           SHOW_CDP_NEI, SHOW_VERS, stdout >>

mainVars == << args, env, pc_main, DEVICE_FILE_PATH, BACKUP_DIR_PATH, config_commands, ntp_idx,
               probe, ntp_log, timestamp, device_list, processes, get_idx, exit_status >>
taskVars == << pc, worker, taskargs, loc, exc, session, sent, pushed, backups, stdout >>
fsVars == << dirs, files >>
tmplVars == << SHOW_CDP_NEI, SHOW_VERS >>

NoProbe == [host |-> "", outcome |-> "", ret |-> FALSE]
NoExc == [type |-> "", at |-> ""]
NoArgs == [timestamp |-> "", config_commands |-> <<>>]
NoLine == [hostname |-> "", hardware |-> "", version |-> "", pe_or_npe |-> "",
           cdp_enabled |-> "", num_cdp_neighbors |-> 0, ntp_status |-> ""]
NoLocals == [device_hostname |-> "", backup_file_path |-> "", backup_result |-> FALSE,
             output |-> "", sh_cdn_nei |-> "", cdp_enabled |-> "", num_cdp_neighbors |-> 0,
             sh_vers |-> "", pe_or_npe |-> "", version |-> <<>>, sh_ntp_sta |-> "",
             ntp_status |-> ""]

\* ------------------------------------------------------------ pure helpers
\* Python: sub in text.
Contains(text, sub) ==
    \E i \in 1..(Len(text) - Len(sub) + 1) : SubSeq(text, i, i + Len(sub) - 1) = sub

\* os.path.join(a, b)
PathJoin(a, b) == a \o "/" \o b

\* strftime pads every field with zeros.
Pad2(n) == IF n < 10 THEN "0" \o ToString(n) ELSE ToString(n)

\* get_current_date_and_time: now.strftime("%Y_%m_%d-%H_%M_%S")
get_current_date_and_time(now) ==
    "2020_04_27-" \o Pad2(now \div 3600) \o "_" \o Pad2((now % 3600) \div 60)
        \o "_" \o Pad2(now % 60)

\* check_ntp_server: sendto/recvfrom raise on a socket error and on the 1 s
\* timeout; the except clause returns False; any datagram received returns True.
RecvRaises(outcome) == outcome \in {"socket_error", "timeout"}
check_ntp_server(outcome) == IF RecvRaises(outcome) THEN FALSE ELSE TRUE

\* ------------------------------------------------------------------- Init
\* The state main starts in, whatever the command line and the surroundings.
Start ==
    /\ pc_main = "parse_args"
    /\ DEVICE_FILE_PATH = DefaultDeviceFile
    /\ BACKUP_DIR_PATH = DefaultBackupDir
    /\ config_commands = <<>>
    /\ ntp_idx = 0
    /\ probe = NoProbe
    /\ ntp_log = <<>>
    /\ timestamp = ""
    /\ device_list = <<>>
    /\ processes = <<>>
    /\ get_idx = 0
    /\ exit_status = 0
    /\ pc = [d \in Devices |-> "absent"]
    /\ worker = [d \in Devices |-> 0]
    /\ taskargs = [d \in Devices |-> NoArgs]
    /\ loc = [d \in Devices |-> NoLocals]
    /\ exc = [d \in Devices |-> NoExc]
    /\ session = [d \in Devices |-> "none"]
    /\ sent = [d \in Devices |-> <<>>]
    /\ pushed = [d \in Devices |-> <<>>]
    /\ backups = [d \in Devices |-> <<>>]
    /\ dirs = {}
    /\ files = {}
    /\ SHOW_CDP_NEI = TRUE
    /\ SHOW_VERS = TRUE
    /\ stdout = [d \in Devices |-> NoLine]

\* The runs of the whole program that are explored: every length of command
\* line, and networks in which none, some and all of the candidates answer.
Runs ==
    { << << >>, [network |-> << "timeout", "timeout", "timeout", "timeout" >>,
                now |-> 32758] >>,
      << << "inv.csv" >>,
         [network |-> << "valid_reply", "socket_error", "malformed_reply", "timeout" >>,
          now |-> 32759] >>,
      << << "inv.csv", "bk" >>,
         [network |-> << "valid_reply", "valid_reply", "valid_reply", "valid_reply" >>,
          now |-> 32758] >>,
      << << "inv.csv", "bk", "x" >>,
         [network |-> << "valid_reply", "timeout", "valid_reply", "timeout" >>,
          now |-> 32759] >> }

Init ==
    /\ \E run \in Runs : args = run[1] /\ env = run[2]
    /\ Start

\* Every command line and every network and clock reading, for the part of
\* main that runs before the inventory is read.
InitProbe ==
    /\ args \in ArgLists
    /\ env \in [network : Networks, now : Clock]
    /\ Start

\* ------------------------------------------------------------------- main
\* main, lines 188-204: usage error, or the globals, the backup root and the
\* first baseline line.
MainParseArgs ==
    /\ pc_main = "parse_args"
    /\ IF Len(args) > 2
       THEN /\ exit_status' = 1
            /\ pc_main' = "exit"
            /\ UNCHANGED << DEVICE_FILE_PATH, BACKUP_DIR_PATH, dirs, config_commands, ntp_idx >>
       ELSE /\ DEVICE_FILE_PATH' = IF Len(args) >= 1 THEN args[1] ELSE DEVICE_FILE_PATH
            /\ BACKUP_DIR_PATH' = IF Len(args) = 2 THEN args[2] ELSE BACKUP_DIR_PATH
            /\ dirs' = dirs \cup {BACKUP_DIR_PATH'}
            /\ config_commands' = <<TimezoneCommand>>
            /\ ntp_idx' = 1
            /\ pc_main' = "ntp_loop"
            /\ UNCHANGED exit_status
    /\ UNCHANGED << args, env, probe, ntp_log, timestamp, device_list, processes, get_idx, files >>
    /\ UNCHANGED << taskVars, tmplVars >>

\* main, line 206, and check_ntp_server: one probe of the candidate the loop is at.
MainCheckNtpServer ==
    /\ pc_main = "ntp_loop"
    /\ ntp_idx <= Len(NTP_SERVERS)
    /\ probe = NoProbe
    /\ probe' = [host |-> NTP_SERVERS[ntp_idx], outcome |-> env.network[ntp_idx],
                 ret |-> check_ntp_server(env.network[ntp_idx])]
    /\ ntp_log' = Append(ntp_log, [host |-> probe'.host, ret |-> probe'.ret])
    /\ UNCHANGED << args, env, pc_main, DEVICE_FILE_PATH, BACKUP_DIR_PATH, config_commands, ntp_idx,
                    timestamp, device_list, processes, get_idx, exit_status >>
    /\ UNCHANGED << taskVars, fsVars, tmplVars >>

\* main, lines 206-207: the candidate is appended when the probe returned True.
\* BaselineAfter without the test of the probe's return value.
BaselineAfter_Always(cmds, p) == Append(cmds, "ntp server " \o p.host)
BaselineAfter(cmds, p) == IF p.ret THEN Append(cmds, "ntp server " \o p.host) ELSE cmds

MainNtpAppend ==
    /\ pc_main = "ntp_loop"
    /\ probe # NoProbe
    /\ config_commands' = BaselineAfter(config_commands, probe)
    /\ probe' = NoProbe
    /\ ntp_idx' = ntp_idx + 1
    /\ pc_main' = IF ntp_idx' > Len(NTP_SERVERS) THEN "timestamp" ELSE "ntp_loop"
    /\ UNCHANGED << args, env, DEVICE_FILE_PATH, BACKUP_DIR_PATH, ntp_log, timestamp, device_list,
                    processes, get_idx, exit_status >>
    /\ UNCHANGED << taskVars, fsVars, tmplVars >>

\* main, line 211.
MainTimestamp ==
    /\ pc_main = "timestamp"
    /\ timestamp' = get_current_date_and_time(env.now)
    /\ pc_main' = "load"
    /\ UNCHANGED << args, env, DEVICE_FILE_PATH, BACKUP_DIR_PATH, config_commands, ntp_idx, probe,
                    ntp_log, device_list, processes, get_idx, exit_status >>
    /\ UNCHANGED << taskVars, fsVars, tmplVars >>

\* main, line 214 and get_devices_from_file: one row per device of the file.
MainLoadDevices ==
    /\ pc_main = "load"
    /\ \E n \in 0..NumDevices : device_list' = [i \in 1..n |-> i]
    /\ pc_main' = IF device_list' = <<>> THEN "get" ELSE "dispatch"
    /\ get_idx' = 1
    /\ UNCHANGED << args, env, DEVICE_FILE_PATH, BACKUP_DIR_PATH, config_commands, ntp_idx, probe,
                    ntp_log, timestamp, processes, exit_status >>
    /\ UNCHANGED << taskVars, fsVars, tmplVars >>

\* ------------------------------------------------------------------- pool
RunningPcs == {"connect", "find_prompt", "path_exists", "mkdir", "enable", "sh_run",
               "write_backup", "sh_cdp", "fsm_cdp", "sh_vers", "fsm_vers", "send_config",
               "sh_ntp", "print", "disconnect"}

Running(d) == pc[d] \in RunningPcs
\* AsyncResult.ready() and AsyncResult.successful()
Ready(d) == pc[d] \in {"done", "raised"}
Successful(d) == pc[d] = "done"

BusyWorkers == { worker[d] : d \in { e \in Devices : Running(e) } }
\* IdleWorkers of a pool that is one worker too large.
IdleWorkers_OneMore == (1..(PoolSize + 1)) \ BusyWorkers
IdleWorkers == (1..PoolSize) \ BusyWorkers
\* The pool workers are interchangeable: the one with the lowest number stands
\* for whichever idle worker gets the task.
Lowest(S) == CHOOSE w \in S : \A v \in S : w <= v

\* The arguments apply_async pickles for the task of one device.
TaskArguments == [timestamp |-> timestamp, config_commands |-> config_commands]

\* MainApplyAsync with the timestamp taken anew for every device.
MainApplyAsync_FreshTimestamp ==
    /\ pc_main = "dispatch"
    /\ Len(processes) < Len(device_list)
    /\ LET d == device_list[Len(processes) + 1] IN
          /\ processes' = Append(processes, d)
          /\ pc' = [pc EXCEPT ![d] = "queued"]
          /\ \E now \in Clock :
                taskargs' = [taskargs EXCEPT ![d] =
                                [timestamp |-> get_current_date_and_time(now),
                                 config_commands |-> config_commands]]
    /\ pc_main' = IF Len(processes') = Len(device_list) THEN "get" ELSE "dispatch"
    /\ UNCHANGED << args, env, DEVICE_FILE_PATH, BACKUP_DIR_PATH, config_commands, ntp_idx,
                    probe, ntp_log, timestamp, device_list, get_idx, exit_status >>
    /\ UNCHANGED << worker, loc, exc, session, sent, pushed, backups, stdout >>
    /\ UNCHANGED << fsVars, tmplVars >>

\* main, lines 222-223: one apply_async per device of device_list, in order.
MainApplyAsync ==
    /\ pc_main = "dispatch"
    /\ Len(processes) < Len(device_list)
    /\ LET d == device_list[Len(processes) + 1] IN
          /\ processes' = Append(processes, d)
          /\ pc' = [pc EXCEPT ![d] = "queued"]
          /\ taskargs' = [taskargs EXCEPT ![d] = TaskArguments]
    /\ pc_main' = IF Len(processes') = Len(device_list) THEN "get" ELSE "dispatch"
    /\ UNCHANGED << args, env, DEVICE_FILE_PATH, BACKUP_DIR_PATH, config_commands, ntp_idx, probe,
                    ntp_log, timestamp, device_list, get_idx, exit_status >>
    /\ UNCHANGED << worker, loc, exc, session, sent, pushed, backups, stdout >>
    /\ UNCHANGED << fsVars, tmplVars >>

\* What Pool.terminate() leaves of a task: a running one is killed with its
\* worker, a queued one is never started.
Terminated(p) ==
    IF p \in RunningPcs THEN "killed" ELSE IF p = "queued" THEN "dropped" ELSE p

\* main, lines 225-226: process.get() on the next handle. It returns when the
\* task returned; it re-raises the task's exception in main, which leaves the
\* with block (Pool.__exit__ calls terminate()) and ends the process with a
\* traceback and exit status 1.
MainGet ==
    /\ pc_main = "get"
    /\ get_idx <= Len(processes)
    /\ LET d == processes[get_idx] IN
          /\ Ready(d)
          /\ IF Successful(d)
             THEN /\ get_idx' = get_idx + 1
                  /\ UNCHANGED << pc_main, exit_status, pc, loc >>
             ELSE /\ pc_main' = "exit"
                  /\ exit_status' = 1
                  /\ pc' = [e \in Devices |-> Terminated(pc[e])]
                  /\ loc' = [e \in Devices |-> IF Running(e) THEN NoLocals ELSE loc[e]]
                  /\ UNCHANGED get_idx
    /\ UNCHANGED << args, env, DEVICE_FILE_PATH, BACKUP_DIR_PATH, config_commands, ntp_idx, probe,
                    ntp_log, timestamp, device_list, processes >>
    /\ UNCHANGED << worker, taskargs, exc, session, sent, pushed, backups, stdout >>
    /\ UNCHANGED << fsVars, tmplVars >>

\* main, line 226 after the last handle: the with block ends, main returns and
\* the process exits with status 0.
MainReturn ==
    /\ pc_main = "get"
    /\ get_idx > Len(processes)
    /\ pc_main' = "exit"
    /\ UNCHANGED << args, env, DEVICE_FILE_PATH, BACKUP_DIR_PATH, config_commands, ntp_idx, probe,
                    ntp_log, timestamp, device_list, processes, get_idx, exit_status >>
    /\ UNCHANGED << taskVars, fsVars, tmplVars >>

\* A pool worker takes the oldest queued task.
WorkerTake(d) ==
    /\ pc[d] = "queued"
    /\ \E i \in 1..Len(processes) :
          /\ processes[i] = d
          /\ \A j \in 1..(i - 1) : pc[processes[j]] # "queued"
    /\ IdleWorkers # {}
    /\ pc' = [pc EXCEPT ![d] = "connect"]
    /\ worker' = [worker EXCEPT ![d] = Lowest(IdleWorkers)]
    /\ UNCHANGED << taskargs, loc, exc, session, sent, pushed, backups, stdout >>
    /\ UNCHANGED << mainVars, fsVars, tmplVars >>

\* ----------------------------------------------------------- process_target
\* An exception leaves process_target: the pool worker stores it in the task's
\* AsyncResult and the frame's locals are gone.
TaskRaise(d, e) ==
    /\ pc' = [pc EXCEPT ![d] = "raised"]
    /\ exc' = [exc EXCEPT ![d] = [type |-> e, at |-> pc[d]]]
    /\ loc' = [loc EXCEPT ![d] = NoLocals]

TaskGoto(d, p, l) ==
    /\ pc' = [pc EXCEPT ![d] = p]
    /\ loc' = [loc EXCEPT ![d] = l]
    /\ UNCHANGED exc

Sent(d, call) == sent' = [sent EXCEPT ![d] = Append(@, call)]

\* Connect with the failure of ConnectHandler noted and processing carried on.
Connect_Swallow(d) ==
    /\ pc[d] = "connect"
    /\ \/ /\ session' = [session EXCEPT ![d] = "open"]
          /\ TaskGoto(d, "find_prompt", loc[d])
       \/ /\ pc' = [pc EXCEPT ![d] = "find_prompt"]
          /\ exc' = [exc EXCEPT ![d] = [type |-> "NetmikoTimeoutException", at |-> "connect"]]
          /\ UNCHANGED << session, loc >>
    /\ UNCHANGED << worker, taskargs, sent, pushed, backups, stdout >>
    /\ UNCHANGED << mainVars, fsVars, tmplVars >>

\* process_target, line 154, and connect_to_device: ConnectHandler opens the
\* session or raises (timeout, authentication).
Connect(d) ==
    /\ pc[d] = "connect"
    /\ \/ /\ session' = [session EXCEPT ![d] = "open"]
          /\ TaskGoto(d, "find_prompt", loc[d])
       \/ /\ TaskRaise(d, "NetmikoTimeoutException")
          /\ UNCHANGED session
    /\ UNCHANGED << worker, taskargs, sent, pushed, backups, stdout >>
    /\ UNCHANGED << mainVars, fsVars, tmplVars >>

\* process_target, line 156: the hostname is the prompt without its last character.
HostnameOf(prompt) == SubSeq(prompt, 1, Len(prompt) - 1)

FindPrompt(d) ==
    /\ pc[d] = "find_prompt"
    /\ Sent(d, "find_prompt")
    /\ \/ \E prompt \in Prompts :
             TaskGoto(d, "path_exists", [loc[d] EXCEPT !.device_hostname = HostnameOf(prompt)])
       \/ TaskRaise(d, "ReadTimeout")
    /\ UNCHANGED << worker, taskargs, session, pushed, backups, stdout >>
    /\ UNCHANGED << mainVars, fsVars, tmplVars >>

\* get_backup_file_path, lines 114 and 118.
BackupDirOf(hostname) == PathJoin(BACKUP_DIR_PATH, hostname)
\* BackupFilePath without the timestamp in the file name.
BackupFilePath_NoTimestamp(hostname, ts) ==
    PathJoin(BackupDirOf(hostname), hostname \o ".txt")
BackupFilePath(hostname, ts) ==
    PathJoin(BackupDirOf(hostname), hostname \o "-" \o ts \o ".txt")

\* get_backup_file_path, line 114: os.path.exists on the device's directory;
\* lines 118-124 follow at once when it exists.
PathExists(d) ==
    /\ pc[d] = "path_exists"
    /\ IF BackupDirOf(loc[d].device_hostname) \in dirs
       THEN TaskGoto(d, "enable",
                     [loc[d] EXCEPT !.backup_file_path =
                         BackupFilePath(loc[d].device_hostname, taskargs[d].timestamp)])
       ELSE TaskGoto(d, "mkdir", loc[d])
    /\ UNCHANGED << worker, taskargs, session, sent, pushed, backups, stdout >>
    /\ UNCHANGED << mainVars, fsVars, tmplVars >>

\* get_backup_file_path, lines 115-124: os.mkdir raises FileExistsError when the
\* directory has appeared since line 114, and OSError when it cannot be made.
Mkdir(d) ==
    /\ pc[d] = "mkdir"
    /\ IF BackupDirOf(loc[d].device_hostname) \in dirs
       THEN /\ TaskRaise(d, "FileExistsError")
            /\ UNCHANGED dirs
       ELSE \/ /\ dirs' = dirs \cup {BackupDirOf(loc[d].device_hostname)}
               /\ TaskGoto(d, "enable",
                           [loc[d] EXCEPT !.backup_file_path =
                               BackupFilePath(loc[d].device_hostname, taskargs[d].timestamp)])
            \/ /\ TaskRaise(d, "OSError")
               /\ UNCHANGED dirs
    /\ UNCHANGED << worker, taskargs, session, sent, pushed, backups, stdout, files >>
    /\ UNCHANGED << mainVars, tmplVars >>

\* create_backup, lines 145-148: the handler names Error, which is defined
\* nowhere, so matching any exception of the try block raises NameError.
ExceptError(e) == "NameError"

\* create_backup, line 132.
Enable(d) ==
    /\ pc[d] = "enable"
    /\ Sent(d, "enable")
    /\ \/ TaskGoto(d, "sh_run", loc[d])
       \/ TaskRaise(d, ExceptError("ValueError"))
    /\ UNCHANGED << worker, taskargs, session, pushed, backups, stdout >>
    /\ UNCHANGED << mainVars, fsVars, tmplVars >>

\* create_backup, line 133.
ShRun(d) ==
    /\ pc[d] = "sh_run"
    /\ Sent(d, "sh run")
    /\ \/ \E output \in RunningConfigs :
             TaskGoto(d, "write_backup", [loc[d] EXCEPT !.output = output])
       \/ TaskRaise(d, ExceptError("ReadTimeout"))
    /\ UNCHANGED << worker, taskargs, session, pushed, backups, stdout >>
    /\ UNCHANGED << mainVars, fsVars, tmplVars >>

\* open(path, 'w') and write: the file holds the text, whatever it held before.
WriteFile(fs, path, text) ==
    { f \in fs : f.path # path } \cup { [path |-> path, text |-> text] }

\* create_backup, lines 136-143: the file is written and True returned, or
\* open/write fail with OSError inside the try block.
WriteBackup(d) ==
    /\ pc[d] = "write_backup"
    /\ \/ /\ files' = WriteFile(files, loc[d].backup_file_path, loc[d].output)
          /\ backups' = [backups EXCEPT ![d] = Append(@, loc[d].backup_file_path)]
          /\ TaskGoto(d, "sh_cdp", [loc[d] EXCEPT !.backup_result = TRUE])
       \/ /\ TaskRaise(d, ExceptError("OSError"))
          /\ UNCHANGED << files, backups >>
    /\ UNCHANGED << worker, taskargs, session, sent, pushed, stdout, dirs >>
    /\ UNCHANGED << mainVars, tmplVars >>

\* process_target, lines 162-165.
CdpEnabled(sh_cdn_nei) ==
    IF Contains(sh_cdn_nei, "CDP is not enabled") THEN "CDP is OFF" ELSE "CDP is ON"

\* ShCdp sending 'show version' where 'show cdp neighbors' belongs.
ShCdp_WrongCommand(d) ==
    /\ pc[d] = "sh_cdp"
    /\ Sent(d, "show version")
    /\ \/ \E text \in CdpOutputs :
             TaskGoto(d, "fsm_cdp",
                      [loc[d] EXCEPT !.sh_cdn_nei = text, !.cdp_enabled = CdpEnabled(text)])
       \/ TaskRaise(d, "ReadTimeout")
    /\ UNCHANGED << worker, taskargs, session, pushed, backups, stdout >>
    /\ UNCHANGED << mainVars, fsVars, tmplVars >>

\* process_target, lines 161-165.
ShCdp(d) ==
    /\ pc[d] = "sh_cdp"
    /\ Sent(d, "show cdp neighbors")
    /\ \/ \E text \in CdpOutputs :
             TaskGoto(d, "fsm_cdp",
                      [loc[d] EXCEPT !.sh_cdn_nei = text, !.cdp_enabled = CdpEnabled(text)])
       \/ TaskRaise(d, "ReadTimeout")
    /\ UNCHANGED << worker, taskargs, session, pushed, backups, stdout >>
    /\ UNCHANGED << mainVars, fsVars, tmplVars >>

\* The rows the neighbors template yields: one per neighbor line.
CdpRows(text) == IF Contains(text, "CDP is not enabled") \/ text = "" THEN 0 ELSE 1

\* The rows the version template yields: none when no version banner matches;
\* a row holds the version at index 0 and the hardware list at index 6.
VersionRows(text) ==
    IF Contains(text, "Version 15.2")
    THEN << << "15.2", "", "", "", "", "", << "C2960" >> >> >>
    ELSE << >>

\* FsmCdp followed by the configuration push instead of 'show version'.
FsmCdp_ThenPush(d) ==
    /\ pc[d] = "fsm_cdp"
    /\ IF SHOW_CDP_NEI
       THEN /\ SHOW_CDP_NEI' = FALSE
            /\ TaskGoto(d, "send_config",
                        [loc[d] EXCEPT !.num_cdp_neighbors = CdpRows(loc[d].sh_cdn_nei)])
       ELSE /\ TaskRaise(d, "TextFSMTemplateError")
            /\ UNCHANGED SHOW_CDP_NEI
    /\ UNCHANGED << worker, taskargs, session, sent, pushed, backups, stdout, SHOW_VERS >>
    /\ UNCHANGED << mainVars, fsVars >>

\* process_target, lines 166-167: textfsm.TextFSM(SHOW_CDP_NEI) reads the open
\* handle to its end. Read again the handle yields nothing, and a template
\* without a Start state raises TextFSMTemplateError.
FsmCdp(d) ==
    /\ pc[d] = "fsm_cdp"
    /\ IF SHOW_CDP_NEI
       THEN /\ SHOW_CDP_NEI' = FALSE
            /\ TaskGoto(d, "sh_vers",
                        [loc[d] EXCEPT !.num_cdp_neighbors = CdpRows(loc[d].sh_cdn_nei)])
       ELSE /\ TaskRaise(d, "TextFSMTemplateError")
            /\ UNCHANGED SHOW_CDP_NEI
    /\ UNCHANGED << worker, taskargs, session, sent, pushed, backups, stdout, SHOW_VERS >>
    /\ UNCHANGED << mainVars, fsVars >>

\* process_target, line 170.
PeOrNpe(sh_vers) == IF Contains(sh_vers, "NPE") THEN "NPE" ELSE "PE"

\* process_target, lines 169-170.
ShVers(d) ==
    /\ pc[d] = "sh_vers"
    /\ Sent(d, "show version")
    /\ \/ \E text \in VersionOutputs :
             TaskGoto(d, "fsm_vers",
                      [loc[d] EXCEPT !.sh_vers = text, !.pe_or_npe = PeOrNpe(text)])
       \/ TaskRaise(d, "ReadTimeout")
    /\ UNCHANGED << worker, taskargs, session, pushed, backups, stdout >>
    /\ UNCHANGED << mainVars, fsVars, tmplVars >>

\* process_target, lines 171-172: the template handle is read as in line 166;
\* ParseText(sh_vers)[0] raises IndexError when there is no row.
FsmVers(d) ==
    /\ pc[d] = "fsm_vers"
    /\ IF SHOW_VERS
       THEN /\ SHOW_VERS' = FALSE
            /\ IF VersionRows(loc[d].sh_vers) = << >>
               THEN TaskRaise(d, "IndexError")
               ELSE TaskGoto(d, "send_config",
                             [loc[d] EXCEPT !.version = VersionRows(loc[d].sh_vers)[1]])
       ELSE /\ TaskRaise(d, "TextFSMTemplateError")
            /\ UNCHANGED SHOW_VERS
    /\ UNCHANGED << worker, taskargs, session, sent, pushed, backups, stdout, SHOW_CDP_NEI >>
    /\ UNCHANGED << mainVars, fsVars >>

\* process_target, line 174.
SendConfig(d) ==
    /\ pc[d] = "send_config"
    /\ Sent(d, "send_config_set")
    /\ \/ /\ pushed' = [pushed EXCEPT ![d] = Append(@, taskargs[d].config_commands)]
          /\ TaskGoto(d, "sh_ntp", loc[d])
       \/ /\ TaskRaise(d, "ReadTimeout")
          /\ UNCHANGED pushed
    /\ UNCHANGED << worker, taskargs, session, backups, stdout >>
    /\ UNCHANGED << mainVars, fsVars, tmplVars >>

\* process_target, line 177: the text is searched for the literal 'sh_ntp_sta'.
NtpStatus(sh_ntp_sta) ==
    IF Contains(sh_ntp_sta, "sh_ntp_sta") THEN "Clock not in Sync" ELSE "Clock in Sync"

\* process_target, lines 176-177.
ShNtp(d) ==
    /\ pc[d] = "sh_ntp"
    /\ Sent(d, "show ntp status")
    /\ \/ \E text \in NtpStatusOutputs :
             TaskGoto(d, "print",
                      [loc[d] EXCEPT !.sh_ntp_sta = text, !.ntp_status = NtpStatus(text)])
       \/ TaskRaise(d, "ReadTimeout")
    /\ UNCHANGED << worker, taskargs, session, pushed, backups, stdout >>
    /\ UNCHANGED << mainVars, fsVars, tmplVars >>

\* ",".join(list) for the lists of the model, which hold one string.
Join(list) == IF list = << >> THEN "" ELSE list[1]

\* process_target, line 179: the fields of the audit line, in the order printed.
AuditLine(l) ==
    [hostname |-> l.device_hostname, hardware |-> Join(l.version[7]),
     version |-> l.version[1], pe_or_npe |-> l.pe_or_npe, cdp_enabled |-> l.cdp_enabled,
     num_cdp_neighbors |-> l.num_cdp_neighbors, ntp_status |-> l.ntp_status]

\* process_target, line 179.
PrintAudit(d) ==
    /\ pc[d] = "print"
    /\ stdout' = [stdout EXCEPT ![d] = AuditLine(loc[d])]
    /\ TaskGoto(d, "disconnect", loc[d])
    /\ UNCHANGED << worker, taskargs, session, sent, pushed, backups >>
    /\ UNCHANGED << mainVars, fsVars, tmplVars >>

\* process_target, line 180, and disconnect_from_device: the session is closed
\* and the task returns None, or disconnect raises.
Disconnect(d) ==
    /\ pc[d] = "disconnect"
    /\ Sent(d, "disconnect")
    /\ \/ /\ session' = [session EXCEPT ![d] = "closed"]
          /\ pc' = [pc EXCEPT ![d] = "done"]
          /\ loc' = [loc EXCEPT ![d] = NoLocals]
          /\ UNCHANGED exc
       \/ /\ TaskRaise(d, "OSError")
          /\ UNCHANGED session
    /\ UNCHANGED << worker, taskargs, pushed, backups, stdout >>
    /\ UNCHANGED << mainVars, fsVars, tmplVars >>

\* --------------------------------------------------------------- the program
Next ==
    \/ MainParseArgs
    \/ MainCheckNtpServer
    \/ MainNtpAppend
    \/ MainTimestamp
    \/ MainLoadDevices
    \/ MainApplyAsync
    \/ MainGet
    \/ MainReturn
    \/ \E d \in Devices : WorkerTake(d)
    \/ \E d \in Devices : Connect(d)
    \/ \E d \in Devices : FindPrompt(d)
    \/ \E d \in Devices : PathExists(d)
    \/ \E d \in Devices : Mkdir(d)
    \/ \E d \in Devices : Enable(d)
    \/ \E d \in Devices : ShRun(d)
    \/ \E d \in Devices : WriteBackup(d)
    \/ \E d \in Devices : ShCdp(d)
    \/ \E d \in Devices : FsmCdp(d)
    \/ \E d \in Devices : ShVers(d)
    \/ \E d \in Devices : FsmVers(d)
    \/ \E d \in Devices : SendConfig(d)
    \/ \E d \in Devices : ShNtp(d)
    \/ \E d \in Devices : PrintAudit(d)
    \/ \E d \in Devices : Disconnect(d)

Spec == Init /\ [][Next]_vars

\* main up to line 211, under every command line, network and clock reading.
NextProbe ==
    \/ MainParseArgs
    \/ MainCheckNtpServer
    \/ MainNtpAppend
    \/ MainTimestamp

SpecProbe == InitProbe /\ [][NextProbe]_vars

\* The state of main at line 219 in a run without arguments in which no
\* candidate answered, with an inventory of NumPoolDevices rows.
InitPool ==
    /\ args = << >>
    /\ env = [network |-> << "timeout", "timeout", "timeout", "timeout" >>, now |-> 32758]
    /\ pc_main = "dispatch"
    /\ DEVICE_FILE_PATH = DefaultDeviceFile
    /\ BACKUP_DIR_PATH = DefaultBackupDir
    /\ config_commands = << TimezoneCommand >>
    /\ ntp_idx = Len(NTP_SERVERS) + 1
    /\ probe = NoProbe
    /\ ntp_log = [i \in 1..Len(NTP_SERVERS) |-> [host |-> NTP_SERVERS[i], ret |-> FALSE]]
    /\ timestamp = get_current_date_and_time(32758)
    /\ device_list = [i \in 1..NumPoolDevices |-> i]
    /\ processes = << >>
    /\ get_idx = 1
    /\ exit_status = 0
    /\ pc = [d \in Devices |-> "absent"]
    /\ worker = [d \in Devices |-> 0]
    /\ taskargs = [d \in Devices |-> NoArgs]
    /\ loc = [d \in Devices |-> NoLocals]
    /\ exc = [d \in Devices |-> NoExc]
    /\ session = [d \in Devices |-> "none"]
    /\ sent = [d \in Devices |-> << >>]
    /\ pushed = [d \in Devices |-> << >>]
    /\ backups = [d \in Devices |-> << >>]
    /\ dirs = {DefaultBackupDir}
    /\ files = {}
    /\ SHOW_CDP_NEI = TRUE
    /\ SHOW_VERS = TRUE
    /\ stdout = [d \in Devices |-> NoLine]

\* The pool at work on an inventory larger than the pool.
NextPool ==
    \/ MainApplyAsync
    \/ MainGet
    \/ \E d \in Devices : WorkerTake(d)
    \/ \E d \in Devices : Connect(d)
    \/ \E d \in Devices : FindPrompt(d)

SpecPool == InitPool /\ [][NextPool]_vars

\* ------------------------------------------------------------------ claims
InInventory(d) == \E i \in 1..Len(device_list) : device_list[i] = d
Calls(d) == { sent[d][i] : i \in 1..Len(sent[d]) }
FileAt(path) == \E f \in files : f.path = path

\* C1: when the connect of one device raises, no other device of the
\* inventory is cancelled or skipped: the pool is not terminated.
C1_FaultIsolation ==
    \A d \in Devices :
        exc[d].at = "connect" =>
            \A e \in Devices \ {d} : InInventory(e) => pc[e] \notin {"killed", "dropped"}

\* C2: when main has finished, every device of the inventory was dispatched
\* exactly once and has a result.
C2_OneResultPerDevice ==
    (pc_main = "exit" /\ Len(args) <= 2) =>
        /\ processes = device_list
        /\ \A d \in Devices : InInventory(d) => Ready(d)

\* C3: no exit path of process_target leaves a session that was opened without
\* a disconnect having been attempted on it.
C3_DisconnectOnEveryExit ==
    \A d \in Devices :
        (pc[d] \in {"done", "raised"} /\ session[d] # "none") => "disconnect" \in Calls(d)

\* C4: once any device task exists, all four NTP probes are over and the
\* timestamp is taken, and every task was given main's timestamp and main's
\* baseline, which is also what every configuration push delivered.
C4_ProbesAndTimestampFirst ==
    \A d \in Devices :
        pc[d] # "absent" =>
            /\ Len(ntp_log) = Len(NTP_SERVERS)
            /\ probe = NoProbe
            /\ timestamp # ""
            /\ taskargs[d].timestamp = timestamp
            /\ taskargs[d].config_commands = config_commands
            /\ \A i \in 1..Len(pushed[d]) : pushed[d][i] = config_commands
            /\ \A e \in Devices : pc[e] # "absent" => taskargs[e] = taskargs[d]

\* Two devices have a session and one of them has received the baseline.
C4_Witness ==
    \E d, e \in Devices :
        /\ d # e
        /\ pushed[d] # << >>
        /\ session[d] = "open"
        /\ session[e] = "open"

\* C5: a device whose task returned has exactly one backup written in the run,
\* at <backup dir>/<hostname>/<hostname>-<timestamp>.txt for the hostname of its
\* audit line and the timestamp of the run, and the file is there.
C5_OneBackupPerSuccess ==
    \A d \in Devices :
        pc[d] = "done" =>
            /\ Len(backups[d]) = 1
            /\ stdout[d] # NoLine
            /\ backups[d][1] = BACKUP_DIR_PATH \o "/" \o stdout[d].hostname \o "/"
                                 \o stdout[d].hostname \o "-" \o timestamp \o ".txt"
            /\ FileAt(backups[d][1])

\* A device task has returned.
C5_Witness == \E d \in Devices : pc[d] = "done" /\ session[d] = "closed"

\* C6: a failure to create the backup directory or to write the backup file
\* never leaves the processing of the device as an exception.
C6_BackupErrorContained ==
    \A d \in Devices : exc[d].at \notin {"mkdir", "write_backup"}

\* C7: when the configuration push fails, the backup file is in place and the
\* audit line of the device is printed.
C7_PushFailureKeepsAudit ==
    \A d \in Devices :
        exc[d].at = "send_config" =>
            /\ \A i \in 1..Len(backups[d]) : FileAt(backups[d][i])
            /\ backups[d] # << >>
            /\ stdout[d] # NoLine

\* C8: the exit status is non-zero exactly when main was given more than two
\* arguments.
C8_ExitStatusOnlyUsage ==
    pc_main = "exit" => (exit_status # 0 <=> Len(args) > 2)

\* The candidates whose probe returned true, by position, in declared order.
AnsweredCandidates == SelectSeq(<< 1, 2, 3, 4 >>, LAMBDA i : ntp_log[i].ret)

\* C9: after the probe loop every candidate was probed exactly once, in the
\* declared order, and the baseline is the timezone line followed by the
\* "ntp server" lines of the candidates whose probe returned true, in that order.
C9_BaselineFromProbes ==
    (pc_main \notin {"parse_args", "ntp_loop"} /\ Len(args) <= 2) =>
        /\ Len(ntp_log) = Len(NTP_SERVERS)
        /\ \A i \in 1..Len(ntp_log) :
              /\ ntp_log[i].host = NTP_SERVERS[i]
              /\ ntp_log[i].ret = (env.network[i] \notin {"socket_error", "timeout"})
        /\ config_commands =
              << "clock timezone GMT 0 0" >>
                  \o [j \in 1..Len(AnsweredCandidates) |-> "ntp server " \o NTP_SERVERS[AnsweredCandidates[j]]]

\* The loop is over with two candidates in the baseline, the first and the
\* last left out.
C9_Witness ==
    /\ pc_main = "timestamp"
    /\ ~ntp_log[1].ret
    /\ ntp_log[2].ret
    /\ ntp_log[3].ret
    /\ ~ntp_log[4].ret
    /\ Len(config_commands) = 3

\* C10: check_ntp_server returns true only for a valid reply: false for a
\* socket error, a timeout (no reply) and a malformed reply.
C10_ProbeTrueOnlyIfValid ==
    probe # NoProbe => (probe.ret <=> probe.outcome = "valid_reply")

\* C11: at most 4 device tasks are in progress at any moment, each on a pool
\* worker of its own among the 4, so no worker has two devices in hand.
C11_AtMostFourSessions ==
    /\ Cardinality({ d \in Devices : Running(d) }) <= 4
    /\ Cardinality({ d \in Devices : Running(d) /\ session[d] = "open" }) <= 4
    /\ \A d \in Devices : Running(d) => worker[d] \in 1..4
    /\ \A d, e \in Devices : (Running(d) /\ Running(e) /\ d # e) => worker[d] # worker[e]

\* Four devices have their session open and a fifth waits in the queue.
C11_Witness ==
    /\ Cardinality({ d \in Devices : Running(d) /\ session[d] = "open" }) = 4
    /\ \E d \in Devices : pc[d] = "queued"

\* C12: the template handles are read-only shared state: processing devices
\* leaves them as they were, and no extraction finds a template without content.
C12_TemplatesReadOnly ==
    /\ SHOW_CDP_NEI
    /\ SHOW_VERS
    /\ \A d \in Devices : exc[d].type # "TextFSMTemplateError"

\* C13: a 'show version' output that yields no row is no error: the task does
\* not end at the version extraction.
C13_NoVersionRowIsNoError ==
    \A d \in Devices : ~(pc[d] = "raised" /\ exc[d].at = "fsm_vers" /\ exc[d].type = "IndexError")

\* C14: the NTP flag is 'Clock not in Sync' exactly when the 'show ntp status'
\* output holds the not-in-sync marker.
C14_NtpFlagFromContent ==
    \A d \in Devices :
        pc[d] \in {"print", "disconnect"} =>
            (loc[d].ntp_status = "Clock not in Sync"
                <=> Contains(loc[d].sh_ntp_sta, "unsynchronized"))

ShowCommands == {"sh run", "show cdp neighbors", "show version", "show ntp status"}
CallsBefore(d, i) == { sent[d][j] : j \in 1..(i - 1) }
CallsAfter(d, i) == { sent[d][j] : j \in (i + 1)..Len(sent[d]) }

\* C15 as stated: send_config_set is issued after all four show commands and
\* no show command is issued after it.
C15_PushAfterAllShows ==
    \A d \in Devices : \A i \in 1..Len(sent[d]) :
        sent[d][i] = "send_config_set" =>
            /\ ShowCommands \subseteq CallsBefore(d, i)
            /\ CallsAfter(d, i) \cap ShowCommands = {}

\* C15 amended: send_config_set is issued after the running configuration, the
\* cdp neighbors and the version were asked for and before 'show ntp status',
\* the only show command that follows it.
C15_PushBeforeNtpStatus ==
    \A d \in Devices : \A i \in 1..Len(sent[d]) :
        sent[d][i] = "send_config_set" =>
            /\ {"find_prompt", "enable", "sh run", "show cdp neighbors", "show version"}
                   \subseteq CallsBefore(d, i)
            /\ "show ntp status" \notin CallsBefore(d, i)
            /\ CallsAfter(d, i) \subseteq {"show ntp status", "disconnect"}

\* A session in which 'show ntp status' was sent after the push.
C15_Witness ==
    \E d \in Devices :
        /\ pc[d] = "print"
        /\ pushed[d] # << >>
        /\ sent[d][Len(sent[d])] = "show ntp status"
        /\ sent[d][Len(sent[d]) - 1] = "send_config_set"

IsShowOrPrompt(call) == call \in ShowCommands \cup {"find_prompt"}

\* C16: a session that ended well sent find_prompt and then each of the four
\* show commands exactly once, in the order running configuration, cdp
\* neighbors, version, ntp status.
C16_ShowOrder ==
    \A d \in Devices :
        pc[d] = "done" =>
            SelectSeq(sent[d], IsShowOrPrompt)
                = << "find_prompt", "sh run", "show cdp neighbors", "show version",
                     "show ntp status" >>

\* A task returned after eight calls on its connection.
C16_Witness == \E d \in Devices : pc[d] = "done" /\ Len(sent[d]) = 8

\* C17: a failed connection.enable() does not end the processing of the device.
C17_EnableFailureRecoverable ==
    \A d \in Devices : ~(pc[d] = "raised" /\ exc[d].at = "enable")

\* C18: a device whose connect failed has no session, was sent nothing, had
\* no backup written and no configuration pushed, and its task is over.
C18_NothingAfterConnectFailure ==
    \A d \in Devices :
        exc[d].at = "connect" =>
            /\ pc[d] = "raised"
            /\ session[d] = "none"
            /\ sent[d] = << >>
            /\ backups[d] = << >>
            /\ pushed[d] = << >>
            /\ stdout[d] = NoLine

\* The connect of one device failed and another device is past its backup.
C18_Witness ==
    \E d, e \in Devices :
        /\ exc[d].at = "connect"
        /\ backups[e] # << >>

\* C19: with two devices of one hostname no task fails because the backup
\* directory already exists.
C19_MkdirIdempotent ==
    \A d \in Devices : exc[d].type # "FileExistsError"

====
